---- MODULE Spec2Model ----
(***************************************************************************)
(* Model of the wealth dashboard (App component and geminiService):        *)
(* the holdings list, the net-worth history, the AI analysis, the two busy *)
(* flags, localStorage with the load and persist effects of the mount, and *)
(* the two asynchronous handlers handleFileUpload and handleRunAnalysis    *)
(* with the service calls they await.                                      *)
(*                                                                         *)
(* Numbers: amounts and return rates are integers; the weighted return     *)
(* rate is the exact fraction [num, den] in lowest terms.  Time is the     *)
(* wall clock at day granularity (a day ordinal); an ISO date string       *)
(* "YYYY-MM-DD" is the fixed-width digit sequence of the ordinal.  A UUID  *)
(* is the ordinal of its draw.                                             *)
(***************************************************************************)
EXTENDS Integers, Sequences, FiniteSets, TLC

VARIABLES
    assets,        \* useState<Asset[]>: sequence of Asset records
    history,       \* useState<HistoryPoint[]>: sequence of HistoryPoint records
    analysis,      \* useState<AnalysisResponse | null>: <<>> is null, <<r>> is r
    isUploading,   \* useState(false)
    isAnalyzing,   \* useState(false)
    uploadReqs,    \* handleFileUpload invocations suspended at an await
    analysisReqs,  \* handleRunAnalysis invocations suspended at an await
    notice,        \* the last alert() shown
    today,         \* the wall clock, as a day ordinal
    uuids,         \* number of UUIDs drawn so far by crypto.randomUUID
    storage,       \* localStorage: the three aurum_* keys, <<>> is no item
    phase,         \* where the mount of App stands
    queued,        \* state updates the load effect has queued: <<>> or <<items read>>
    startup,       \* history variable: what localStorage held when the page was loaded
    okDays,        \* history variable: the day of every successful upload, in order
    lastPoint,     \* history variable: <<newPoint>> of the last successful upload
    lastKind       \* history variable: what the last upload to end was answered with

vars == <<assets, history, analysis, isUploading, isAnalyzing, uploadReqs,
          analysisReqs, notice, today, uuids, storage, phase, queued, startup,
          okDays, lastPoint, lastKind>>

(***************************************************************************)
(* Bounds of the model.                                                    *)
(***************************************************************************)
MaxUploads == 2     \* uploads that run to a successful reconciliation
MaxDays == 1        \* days the clock advances after the page was loaded
MaxInFlight == 2    \* suspended invocations of one handler kept by the model

(***************************************************************************)
(* types.ts                                                                *)
(***************************************************************************)
AssetCategory == {"Stock", "Fund", "Bond", "Crypto", "Cash", "Other"}

AssetFields == {"id", "name", "category", "amount", "returnRate", "currency", "lastUpdated"}

(***************************************************************************)
(* Dates.  new Date().toISOString().split('T')[0] is a fixed-width string; *)
(* String.prototype.startsWith is the prefix test.                         *)
(***************************************************************************)
DateStr(d) == <<(d \div 10) % 10, d % 10>>

\* Variant: a proper prefix only.
StartsWithProper(s, p) == Len(p) < Len(s) /\ SubSeq(s, 1, Len(p)) = p

StartsWith(s, p) == Len(p) <= Len(s) /\ SubSeq(s, 1, Len(p)) = p

(***************************************************************************)
(* The page is loaded on day LoadDay; MOCK_HISTORY holds the seven days    *)
(* ending on that day.  Math.random() is drawn from MockJitters; no        *)
(* handler reads the values it produces.                                   *)
(***************************************************************************)
MockLength == 7

LoadDay == 6

MockJitters == {0}

MOCK_HISTORY(jitter) ==
    [k \in 1..MockLength |->
        LET i == k - 1 IN
        [date |-> DateStr(LoadDay - (6 - i)),
         totalNetWorth |-> 100000 + jitter * 2500 + (i * 1000),
         totalReturnRate |-> [num |-> 2 + jitter, den |-> 1]]]

(***************************************************************************)
(* Records the extraction service can answer with (items of the JSON       *)
(* array before sanitizing).  A field the item lacks is outside its DOMAIN.*)
(* name, amount and category are "required" in the response schema, which  *)
(* the service may still fail to honour.                                   *)
(***************************************************************************)
UnknownName == "unknown-asset"      \* the literal default name of line 71

ItemFull == [name |-> "Fund A", category |-> "Stock", amount |-> 10, returnRate |-> 5, currency |-> "USD"]

ItemPartial == [name |-> "Fund A", category |-> "Fund", amount |-> 20]

ItemOtherCase == [name |-> "fund a", category |-> "Bogus", amount |-> 10, returnRate |-> -2]

ItemEmptyName == [name |-> "", category |-> "Cash", amount |-> 10]

ItemNoName == [category |-> "Bond", amount |-> 0, returnRate |-> 5]

\* The JSON arrays the service answers with.
Batches ==
    { <<>>,
      <<ItemFull>>,
      <<ItemPartial>>,
      <<ItemOtherCase>>,
      <<ItemNoName>>,
      <<ItemFull, ItemPartial>>,
      <<ItemOtherCase, ItemFull>>,
      <<ItemEmptyName, ItemPartial>> }

\* What generateContent settles with: a rejection, or a response whose text is
\* empty, is not a JSON array of objects, or is a JSON array of items.
ExtractionResponses ==
    {[kind |-> "reject", items |-> <<>>],
     [kind |-> "notext", items |-> <<>>],
     [kind |-> "malformed", items |-> <<>>]}
    \cup {[kind |-> "json", items |-> s] : s \in Batches}

NoResponse == [kind |-> "pending", items |-> <<>>]

(***************************************************************************)
(* parseHoldingsScreenshot                                                 *)
(***************************************************************************)
Provided(item, f) == f \in DOMAIN item

\* item.name || "...": a missing or empty name is falsy
SanitizeName(item) ==
    IF Provided(item, "name") /\ item.name # "" THEN item.name ELSE UnknownName

SanitizeCategory(item) ==
    IF Provided(item, "category") /\ item.category \in AssetCategory
    THEN item.category ELSE "Other"

\* Number(item.x) || 0: a missing number is NaN, and NaN and 0 are falsy
SanitizeNumber(item, f) == IF Provided(item, f) THEN item[f] ELSE 0

SanitizeCurrency(item) ==
    IF Provided(item, "currency") /\ item.currency # "" THEN item.currency ELSE "CNY"

Sanitize(item, now) ==
    [name |-> SanitizeName(item),
     category |-> SanitizeCategory(item),
     amount |-> SanitizeNumber(item, "amount"),
     returnRate |-> SanitizeNumber(item, "returnRate"),
     currency |-> SanitizeCurrency(item),
     lastUpdated |-> now]

\* Variant: the catch rethrows.
ParseFailureRethrown == [threw |-> TRUE, value |-> <<>>]

\* On a text that JSON.parse or rawData.map rejects, the catch returns [].
ParseFailureResult == [threw |-> FALSE, value |-> <<>>]

\* The outcome of the call: it throws when generateContent rejects, and
\* otherwise returns a list of Partial<Asset>.
ParseHoldingsScreenshot(resp, now) ==
    CASE resp.kind = "reject" -> [threw |-> TRUE, value |-> <<>>]
      [] resp.kind = "notext" -> [threw |-> FALSE, value |-> <<>>]
      [] resp.kind = "malformed" -> ParseFailureResult
      [] OTHER -> [threw |-> FALSE,
                   value |-> [k \in 1..Len(resp.items) |-> Sanitize(resp.items[k], now)]]

(***************************************************************************)
(* Computed values of a render.                                            *)
(***************************************************************************)
RECURSIVE SumSeq(_)
SumSeq(s) == IF s = <<>> THEN 0 ELSE Head(s) + SumSeq(Tail(s))

RECURSIVE Gcd(_, _)
Gcd(a, b) == IF b = 0 THEN a ELSE Gcd(b, a % b)

Abs(n) == IF n < 0 THEN -n ELSE n

\* the fraction n/d, d > 0, in lowest terms
Frac(n, d) ==
    LET g == Gcd(Abs(n), d) IN [num |-> n \div g, den |-> d \div g]

Zero == [num |-> 0, den |-> 1]

TotalNetWorth(list) == SumSeq([k \in 1..Len(list) |-> list[k].amount])

\* totalReturn * 100: the sum of amount * returnRate
TotalReturnPercent(list) ==
    SumSeq([k \in 1..Len(list) |-> list[k].amount * list[k].returnRate])

\* Variant: the plain mean of the return rates.
TotalReturnRateUnweighted(list) ==
    IF Len(list) > 0
    THEN Frac(SumSeq([k \in 1..Len(list) |-> list[k].returnRate]), Len(list))
    ELSE Zero

\* (totalReturn / totalNetWorth) * 100, or 0
TotalReturnRate(list) ==
    IF TotalNetWorth(list) > 0
    THEN Frac(TotalReturnPercent(list), TotalNetWorth(list))
    ELSE Zero

(***************************************************************************)
(* handleFileUpload: the setAssets updater.                                *)
(***************************************************************************)
\* { ...a, ...e }
Spread(a, e) ==
    [f \in DOMAIN a \cup DOMAIN e |-> IF f \in DOMAIN e THEN e[f] ELSE a[f]]

\* newAssets.findIndex(a => a.name === name): first index, or 0 for -1
NameEq(x, y) == x = y

\* Variant: the element pushed last is not searched.
FindIndexStale(list, name) ==
    LET hits == {k \in 1..(Len(list) - 1) : NameEq(list[k].name, name)} IN
    IF hits = {} THEN 0 ELSE CHOOSE k \in hits : \A j \in hits : k <= j

FindIndex(list, name) ==
    LET hits == {k \in 1..Len(list) : NameEq(list[k].name, name)} IN
    IF hits = {} THEN 0 ELSE CHOOSE k \in hits : \A j \in hits : k <= j

\* Variant: the same id for every new asset.
RandomUUIDRepeats(n) == 1

\* crypto.randomUUID(): the n-th UUID drawn
RandomUUID(n) == n

\* !extracted.name
NameMissing(e) == ~Provided(e, "name") \/ e.name = ""

\* Variant: a new asset is put at the front of the list.
MergeOnePrepends(st, extracted, now) ==
    IF NameMissing(extracted) THEN st
    ELSE LET index == FindIndex(st.list, extracted.name) IN
         IF index > 0
         THEN [st EXCEPT !.list[index] =
                   Spread(Spread(st.list[index], extracted), [lastUpdated |-> now])]
         ELSE [list |-> <<Spread(extracted, [id |-> RandomUUID(st.drawn + 1),
                                            lastUpdated |-> now])>> \o st.list,
               drawn |-> st.drawn + 1]

\* One pass of the forEach body over newAssets; drawn counts the UUIDs drawn.
MergeOne(st, extracted, now) ==
    IF NameMissing(extracted) THEN st
    ELSE LET index == FindIndex(st.list, extracted.name) IN
         IF index > 0
         THEN [st EXCEPT !.list[index] =
                   Spread(Spread(st.list[index], extracted), [lastUpdated |-> now])]
         ELSE [list |-> Append(st.list,
                   Spread(extracted, [id |-> RandomUUID(st.drawn + 1), lastUpdated |-> now])),
               drawn |-> st.drawn + 1]

RECURSIVE MergeFrom(_, _, _)
MergeFrom(st, extractedAssets, now) ==
    IF extractedAssets = <<>> THEN st
    ELSE MergeFrom(MergeOne(st, Head(extractedAssets), now), Tail(extractedAssets), now)

MergeAssets(prev, extractedAssets, now, drawn) ==
    MergeFrom([list |-> prev, drawn |-> drawn], extractedAssets, now)

(***************************************************************************)
(* handleFileUpload: the setHistory updater.                               *)
(***************************************************************************)
\* a.amount || 0
AmountOrZero(e) == IF Provided(e, "amount") THEN e.amount ELSE 0

ExtractedSum(extractedAssets) ==
    SumSeq([k \in 1..Len(extractedAssets) |-> AmountOrZero(extractedAssets[k])])

\* Variant: the captured total alone.
NewPointWithoutExtracted(todayStr, totalNetWorth, totalReturnRate, extractedAssets) ==
    [date |-> todayStr,
     totalNetWorth |-> totalNetWorth,
     totalReturnRate |-> totalReturnRate]

\* totalNetWorth and totalReturnRate are the values of the render whose
\* handler is running (captured when the upload started).
NewPoint(todayStr, totalNetWorth, totalReturnRate, extractedAssets) ==
    [date |-> todayStr,
     totalNetWorth |-> totalNetWorth + ExtractedSum(extractedAssets),
     totalReturnRate |-> totalReturnRate]

\* Variant: always append.
SetHistoryAppends(prev, newPoint) == Append(prev, newPoint)

ExistingTodayIndex(prev, todayStr) ==
    LET hits == {k \in 1..Len(prev) : StartsWith(prev[k].date, todayStr)} IN
    IF hits = {} THEN 0 ELSE CHOOSE k \in hits : \A j \in hits : k <= j

SetHistory(prev, newPoint) ==
    LET existingTodayIndex == ExistingTodayIndex(prev, newPoint.date) IN
    IF existingTodayIndex > 0
    THEN [prev EXCEPT ![existingTodayIndex] = newPoint]
    ELSE Append(prev, newPoint)

(***************************************************************************)
(* alert() texts.                                                          *)
(***************************************************************************)
NoNotice == "none"
NoticeUploadOk == "upload-ok"             \* line 252
NoticeUploadFailed == "upload-failed"     \* line 255
NoticeNeedAssets == "need-assets"         \* line 265
NoticeAnalysisFailed == "analysis-failed" \* line 274

RemoveAt(s, i) == SubSeq(s, 1, i - 1) \o SubSeq(s, i + 1, Len(s))

(***************************************************************************)
(* Persistence.  localStorage maps each of the three keys to no item       *)
(* (<<>>) or to one item (<<item>>).  An item is the JSON text of a value; *)
(* the values of the model (lists and records of finite numbers and        *)
(* strings, no undefined field) are those JSON.parse returns as they were  *)
(* given to JSON.stringify.                                                *)
(***************************************************************************)
JSONStringify(v) == [json |-> v]

JSONParse(item) == item.json

\* localStorage.setItem(key, item)
SetItem(st, key, item) == [st EXCEPT ![key] = <<item>>]

\* Variant: the history is not written.
PersistWithoutHistory(a, h, an, st) ==
    LET s1 == SetItem(st, "assets", JSONStringify(a))
    IN  IF an # <<>> THEN SetItem(s1, "analysis", JSONStringify(an[1])) ELSE s1

\* The persist effect after a render whose state is (a, h, an).
Persist(a, h, an, st) ==
    LET s1 == SetItem(st, "assets", JSONStringify(a))
        s2 == SetItem(s1, "history", JSONStringify(h))
    IN  IF an # <<>> THEN SetItem(s2, "analysis", JSONStringify(an[1])) ELSE s2

\* What localStorage holds when the page is loaded: nothing (a first visit),
\* empty collections, or what an earlier session left.  The id of a stored
\* asset is a UUID drawn in that session.
NothingStored == [assets |-> <<>>, history |-> <<>>, analysis |-> <<>>]

StoredAsset ==
    [id |-> 0, name |-> "Cash B", category |-> "Cash", amount |-> 0,
     returnRate |-> 3, currency |-> "CNY", lastUpdated |-> LoadDay - 1]

StoredPoint ==
    [date |-> DateStr(LoadDay - 1), totalNetWorth |-> 0,
     totalReturnRate |-> [num |-> 0, den |-> 1]]

StoredAnalysis ==
    [assetAllocationAnalysis |-> "allocation-0", investmentAdvice |-> "advice-0",
     adjustmentSuggestions |-> "adjust-0"]

StoredStates ==
    {NothingStored,
     [assets |-> <<JSONStringify(<<>>)>>,
      history |-> <<JSONStringify(<<>>)>>,
      analysis |-> <<>>],
     [assets |-> <<JSONStringify(<<StoredAsset>>)>>,
      history |-> <<JSONStringify(<<StoredPoint>>)>>,
      analysis |-> <<JSONStringify(StoredAnalysis)>>]}

(***************************************************************************)
(* Initial state: the first render of App, before its effects have run.    *)
(***************************************************************************)
Init ==
    /\ assets = <<>>
    /\ history \in {MOCK_HISTORY(j) : j \in MockJitters}
    /\ analysis = <<>>
    /\ isUploading = FALSE
    /\ isAnalyzing = FALSE
    /\ uploadReqs = <<>>
    /\ analysisReqs = <<>>
    /\ notice = NoNotice
    /\ today = LoadDay
    /\ uuids = 0
    /\ storage \in StoredStates
    /\ phase = "mounted"
    /\ queued = <<>>
    /\ startup = storage
    /\ okDays = <<>>
    /\ lastPoint = <<>>
    /\ lastKind = "none"

(***************************************************************************)
(* The mount.  The effects of the first render run in the order they are   *)
(* declared: the load effect reads the three items and queues a state      *)
(* update for each one that is there; the persist effect then writes the   *)
(* state of the first render.  The queued updates are applied in the next  *)
(* render, after which the persist effect runs again.  (When nothing was   *)
(* queued there is no second render; the step then changes no value.)      *)
(***************************************************************************)
\* Variant: the load effect reads nothing.
LoadEffectReadsNothing(st) == NothingStored

\* getItem of the three keys
LoadEffect(st) == st

MountEffects ==
    /\ phase = "mounted"
    /\ queued' = <<LoadEffect(storage)>>
    /\ storage' = Persist(assets, history, analysis, storage)
    /\ phase' = "effects"
    /\ UNCHANGED <<assets, history, analysis, isUploading, isAnalyzing, uploadReqs,
                   analysisReqs, notice, today, uuids, startup, okDays, lastPoint,
                   lastKind>>

\* if (saved) set(JSON.parse(saved))
Loaded(saved, current) == IF saved # <<>> THEN JSONParse(saved[1]) ELSE current

Rerender ==
    /\ phase = "effects"
    /\ assets' = Loaded(queued[1].assets, assets)
    /\ history' = Loaded(queued[1].history, history)
    /\ analysis' = IF queued[1].analysis # <<>>
                   THEN <<JSONParse(queued[1].analysis[1])>> ELSE analysis
    /\ storage' = Persist(assets', history', analysis', storage)
    /\ phase' = "ready"
    /\ queued' = <<>>
    /\ UNCHANGED <<isUploading, isAnalyzing, uploadReqs, analysisReqs, notice,
                   today, uuids, startup, okDays, lastPoint, lastKind>>

(***************************************************************************)
(* The clock.                                                              *)
(***************************************************************************)
Tick ==
    /\ today < LoadDay + MaxDays
    /\ today' = today + 1
    /\ UNCHANGED <<assets, history, analysis, isUploading, isAnalyzing, uploadReqs,
                   analysisReqs, notice, uuids, storage, phase, queued, startup,
                   okDays, lastPoint, lastKind>>

(***************************************************************************)
(* handleFileUpload                                                        *)
(***************************************************************************)
\* Variant: the input is never disabled.
UploadInputNeverDisabled == FALSE

\* <input id="nav-upload" disabled={isUploading}>
UploadInputDisabled == isUploading

\* onChange with a file: the handler runs to its first await.  (Without a
\* file the handler returns at once and nothing changes.)
StartUpload ==
    /\ phase = "ready"
    /\ ~UploadInputDisabled
    /\ Len(uploadReqs) < MaxInFlight
    /\ Len(okDays) + Len(uploadReqs) < MaxUploads
    /\ isUploading' = TRUE
    /\ uploadReqs' = Append(uploadReqs,
            [pc |-> "reading",
             totalNetWorth |-> TotalNetWorth(assets),
             totalReturnRate |-> TotalReturnRate(assets),
             resp |-> NoResponse])
    /\ UNCHANGED <<assets, history, analysis, isAnalyzing, analysisReqs, notice,
                   today, uuids, storage, phase, queued, startup,
                   okDays, lastPoint, lastKind>>

\* fileToGenerativePart resolves; parseHoldingsScreenshot issues the request.
FileRead(i) ==
    /\ i \in 1..Len(uploadReqs)
    /\ uploadReqs[i].pc = "reading"
    /\ uploadReqs' = [uploadReqs EXCEPT ![i].pc = "extracting"]
    /\ UNCHANGED <<assets, history, analysis, isUploading, isAnalyzing, analysisReqs,
                   notice, today, uuids, storage, phase, queued, startup,
                   okDays, lastPoint, lastKind>>

\* The service settles the request.
ExtractionSettles(i, resp) ==
    /\ i \in 1..Len(uploadReqs)
    /\ uploadReqs[i].pc = "extracting"
    /\ resp \in ExtractionResponses
    /\ uploadReqs' = [uploadReqs EXCEPT ![i].pc = "settled", ![i].resp = resp]
    /\ UNCHANGED <<assets, history, analysis, isUploading, isAnalyzing, analysisReqs,
                   notice, today, uuids, storage, phase, queued, startup,
                   okDays, lastPoint, lastKind>>

\* Variant: the flag is not reset.
UploadFinallyKeepsBusy(i) ==
    /\ isUploading' = isUploading
    /\ uploadReqs' = RemoveAt(uploadReqs, i)
    /\ lastKind' = uploadReqs[i].resp.kind

\* finally { setIsUploading(false) }
UploadFinally(i) ==
    /\ isUploading' = FALSE
    /\ uploadReqs' = RemoveAt(uploadReqs, i)
    /\ lastKind' = uploadReqs[i].resp.kind

\* catch (error) { alert(failed) } finally { ... }
UploadCatch(i) ==
    /\ notice' = NoticeUploadFailed
    /\ UploadFinally(i)
    /\ UNCHANGED <<assets, history, analysis, isAnalyzing, analysisReqs, today,
                   uuids, storage, phase, queued, startup, okDays, lastPoint>>

\* reader.onerror: fileToGenerativePart rejects.
FileReadFails(i) ==
    /\ i \in 1..Len(uploadReqs)
    /\ uploadReqs[i].pc = "reading"
    /\ UploadCatch(i)

\* The handler resumes after await parseHoldingsScreenshot(base64).
UploadResumes(i) ==
    /\ i \in 1..Len(uploadReqs)
    /\ uploadReqs[i].pc = "settled"
    /\ LET req == uploadReqs[i]
           parsed == ParseHoldingsScreenshot(req.resp, today)
       IN  IF parsed.threw
           THEN UploadCatch(i)
           ELSE LET extractedAssets == parsed.value
                    merged == MergeAssets(assets, extractedAssets, today, uuids)
                    newPoint == NewPoint(DateStr(today), req.totalNetWorth,
                                         req.totalReturnRate, extractedAssets)
                IN  /\ assets' = merged.list
                    /\ uuids' = merged.drawn
                    /\ history' = SetHistory(history, newPoint)
                    /\ notice' = NoticeUploadOk
                    /\ okDays' = Append(okDays, today)
                    /\ lastPoint' = <<newPoint>>
                    /\ storage' = Persist(assets', history', analysis, storage)
                    /\ UploadFinally(i)
                    /\ UNCHANGED <<analysis, isAnalyzing, analysisReqs, today,
                                   phase, queued, startup>>

(***************************************************************************)
(* generateWealthAnalysis and handleRunAnalysis                            *)
(***************************************************************************)
\* The result the service answers with; StoredAnalysis is an earlier one.
AnalysisResults ==
    {[assetAllocationAnalysis |-> "allocation-1", investmentAdvice |-> "advice-1",
      adjustmentSuggestions |-> "adjust-1"]}

NoResult == [assetAllocationAnalysis |-> "", investmentAdvice |-> "",
             adjustmentSuggestions |-> ""]

\* What generateContent settles with: a rejection, or a response whose text is
\* empty or is the JSON of an AnalysisResponse.  (A text that JSON.parse rejects
\* makes the call throw as the empty text does.)
AnalysisResponses ==
    {[kind |-> "reject", result |-> NoResult],
     [kind |-> "notext", result |-> NoResult]}
    \cup {[kind |-> "json", result |-> r] : r \in AnalysisResults}

NoAnalysisResponse == [kind |-> "pending", result |-> NoResult]

\* The outcome of the call: it throws when generateContent rejects, when the
\* text is empty ("No analysis generated") and when JSON.parse throws.
GenerateWealthAnalysis(resp) ==
    IF resp.kind = "json"
    THEN [threw |-> FALSE, value |-> resp.result]
    ELSE [threw |-> TRUE, value |-> NoResult]

\* <button onClick={handleRunAnalysis} disabled={isAnalyzing}>
AnalysisButtonDisabled == isAnalyzing

\* Variant: the check is missing.
NoAssetsUnchecked == FALSE

\* if (assets.length === 0)
NoAssets == Len(assets) = 0

\* onClick: the handler runs to its return or to its await.
RunAnalysis ==
    /\ phase = "ready"
    /\ ~AnalysisButtonDisabled
    /\ Len(analysisReqs) < MaxInFlight
    /\ IF NoAssets
       THEN /\ notice' = NoticeNeedAssets
            /\ UNCHANGED <<isAnalyzing, analysisReqs>>
       ELSE /\ isAnalyzing' = TRUE
            /\ analysisReqs' = Append(analysisReqs,
                    [pc |-> "analyzing", resp |-> NoAnalysisResponse])
            /\ UNCHANGED notice
    /\ UNCHANGED <<assets, history, analysis, isUploading, uploadReqs, today, uuids,
                   storage, phase, queued, startup, okDays, lastPoint, lastKind>>

\* The service settles the request.
AnalysisSettles(i, resp) ==
    /\ i \in 1..Len(analysisReqs)
    /\ analysisReqs[i].pc = "analyzing"
    /\ resp \in AnalysisResponses
    /\ analysisReqs' = [analysisReqs EXCEPT ![i].pc = "settled", ![i].resp = resp]
    /\ UNCHANGED <<assets, history, analysis, isUploading, isAnalyzing, uploadReqs,
                   notice, today, uuids, storage, phase, queued, startup,
                   okDays, lastPoint, lastKind>>

\* finally { setIsAnalyzing(false) }
AnalysisFinally(i) ==
    /\ isAnalyzing' = FALSE
    /\ analysisReqs' = RemoveAt(analysisReqs, i)

\* Variant: the catch clears the stored analysis.
AnalysisCatchClears ==
    /\ notice' = NoticeAnalysisFailed
    /\ analysis' = <<>>

\* catch (error) { alert(failed) }
AnalysisCatch ==
    /\ notice' = NoticeAnalysisFailed
    /\ UNCHANGED analysis

\* The handler resumes after await generateWealthAnalysis(assets).
AnalysisResumes(i) ==
    /\ i \in 1..Len(analysisReqs)
    /\ analysisReqs[i].pc = "settled"
    /\ LET outcome == GenerateWealthAnalysis(analysisReqs[i].resp)
       IN  IF outcome.threw
           THEN AnalysisCatch /\ UNCHANGED storage
           ELSE /\ analysis' = <<outcome.value>>
                /\ storage' = Persist(assets, history, analysis', storage)
                /\ UNCHANGED notice
    /\ AnalysisFinally(i)
    /\ UNCHANGED <<assets, history, isUploading, uploadReqs, today, uuids, phase,
                   queued, startup, okDays, lastPoint, lastKind>>

(***************************************************************************)
(* The specification.                                                      *)
(***************************************************************************)
Next ==
    \/ MountEffects
    \/ Rerender
    \/ Tick
    \/ StartUpload
    \/ \E i \in 1..MaxInFlight : FileRead(i)
    \/ \E i \in 1..MaxInFlight : FileReadFails(i)
    \/ \E i \in 1..MaxInFlight : \E resp \in ExtractionResponses : ExtractionSettles(i, resp)
    \/ \E i \in 1..MaxInFlight : UploadResumes(i)
    \/ RunAnalysis
    \/ \E i \in 1..MaxInFlight : \E resp \in AnalysisResponses : AnalysisSettles(i, resp)
    \/ \E i \in 1..MaxInFlight : AnalysisResumes(i)

Spec == Init /\ [][Next]_vars

(***************************************************************************)
(* The specification for progress.  The same handlers, with the service's  *)
(* answers restricted to one of each kind and a first visit of the page    *)
(* (the busy flags depend neither on the records nor on what was stored),  *)
(* under the scheduling the runtime gives: the file reader                 *)
(* and the services eventually settle, and a settled promise's             *)
(* continuation eventually runs.                                           *)
(***************************************************************************)
LiveExtractionResponses ==
    {r \in ExtractionResponses : r.kind # "json"}
    \cup {[kind |-> "json", items |-> <<>>],
          [kind |-> "json", items |->
              <<[name |-> "Fund A", category |-> "Fund", amount |-> 20]>>]}

LiveAnalysisResponses ==
    {r \in AnalysisResponses : r.kind # "json"}
    \cup {[kind |-> "json", result |-> r] : r \in
            {x \in AnalysisResults : x.investmentAdvice = "advice-1"}}

UploadProgress ==
    \E i \in 1..MaxInFlight :
        \/ FileRead(i)
        \/ FileReadFails(i)
        \/ \E resp \in LiveExtractionResponses : ExtractionSettles(i, resp)
        \/ UploadResumes(i)

AnalysisProgress ==
    \E i \in 1..MaxInFlight :
        \/ \E resp \in LiveAnalysisResponses : AnalysisSettles(i, resp)
        \/ AnalysisResumes(i)

LiveNext ==
    \/ MountEffects
    \/ Rerender
    \/ Tick
    \/ StartUpload
    \/ UploadProgress
    \/ RunAnalysis
    \/ AnalysisProgress

LiveInit == Init /\ storage = NothingStored

LiveSpec ==
    /\ LiveInit
    /\ [][LiveNext]_vars
    /\ WF_vars(UploadProgress)
    /\ WF_vars(AnalysisProgress)

(***************************************************************************)
(* Vocabulary of the properties.  These definitions read the state and the *)
(* service's answer directly; none of them uses an operator of the         *)
(* handlers.                                                               *)
(***************************************************************************)
\* A step in which an upload runs to the end of its try block.
UploadSucceeds == Len(okDays') = Len(okDays) + 1

\* A step in which a suspended upload leaves the handler (finally has run).
UploadEnds == Len(uploadReqs') < Len(uploadReqs)

\* A step in which a suspended analysis leaves the handler.
AnalysisEnds == Len(analysisReqs') < Len(analysisReqs)

\* The records of the answer the resuming upload was given.
Answer == uploadReqs[1].resp

HasName(E) == "name" \in DOMAIN E /\ E.name # ""

NamesOf(list) == {list[j].name : j \in 1..Len(list)}

WithName(list, n) == {j \in 1..Len(list) : list[j].name = n}

FirstWithName(list, n) == CHOOSE j \in WithName(list, n) : \A h \in WithName(list, n) : j <= h

\* E is the only record of the batch that carries its name.
OnlyOnce(items, k) ==
    \A h \in 1..Len(items) : h # k /\ HasName(items[h]) => items[h].name # items[k].name

DatedAt(h, d) == {j \in 1..Len(h) : h[j].date = d}

\* The date string of the current day, "YYYY-MM-DD" at the model's width.
TodayDate == <<(today \div 10) % 10, today % 10>>

(***************************************************************************)
(* C1 -- Reconciliation, match case.  When an upload succeeds, for every   *)
(* record E of the answer whose name equals the name of an existing asset, *)
(* the asset at the first such position keeps its id, takes E's value for  *)
(* every field E provides, keeps its prior value for every field E does    *)
(* not provide (lastUpdated excepted), and other assets of that name are   *)
(* unchanged.  Stated for a name that occurs once in the batch.            *)
(***************************************************************************)
C1_MatchIn(E, A, M) ==
    /\ M.id = A.id
    /\ \A f \in DOMAIN E \ {"category"} : M[f] = E[f]
    /\ "category" \in DOMAIN E /\ E.category \in AssetCategory => M.category = E.category
    /\ M.lastUpdated = today

C1_MatchOut(E, A, M) ==
    \A f \in AssetFields \ (DOMAIN E \cup {"lastUpdated"}) : M[f] = A[f]

C1_Matched(k) ==
    /\ HasName(Answer.items[k])
    /\ OnlyOnce(Answer.items, k)
    /\ Answer.items[k].name \in NamesOf(assets)

C1_MatchCase ==
    [][UploadSucceeds =>
        \A k \in 1..Len(Answer.items) :
            C1_Matched(k) =>
                LET E == Answer.items[k]
                    idx == FirstWithName(assets, E.name)
                IN  /\ C1_MatchIn(E, assets[idx], assets'[idx])
                    /\ C1_MatchOut(E, assets[idx], assets'[idx])
                    /\ \A j \in WithName(assets, E.name) \ {idx} : assets'[j] = assets[j]]_vars

\* The part of C1 the code does satisfy: identity and provided fields.
C1_ProvidedFieldsTaken ==
    [][UploadSucceeds =>
        \A k \in 1..Len(Answer.items) :
            C1_Matched(k) =>
                LET E == Answer.items[k]
                    idx == FirstWithName(assets, E.name)
                IN  /\ C1_MatchIn(E, assets[idx], assets'[idx])
                    /\ \A j \in WithName(assets, E.name) \ {idx} : assets'[j] = assets[j]]_vars

(***************************************************************************)
(* C2 -- Reconciliation, insert case.  When an upload succeeds, every      *)
(* record of the answer with a non-empty name that no asset of the list    *)
(* carries when the record is processed (none before the upload, and none  *)
(* earlier in the batch) adds exactly one asset of that name, placed after *)
(* all assets the list held before; its id differs from the id of every    *)
(* other asset; and, when the name occurs once in the batch, its fields    *)
(* are the record's, with currency "CNY" when the record has none and      *)
(* category "Other" when the record has none or one outside the six.       *)
(***************************************************************************)
C2_Inserted(k) ==
    /\ HasName(Answer.items[k])
    /\ Answer.items[k].name \notin NamesOf(assets)
    /\ \A h \in 1..(k - 1) :
        IF HasName(Answer.items[h])
        THEN Answer.items[h].name # Answer.items[k].name
        ELSE Answer.items[k].name # UnknownName

C2_Fields(E, M) ==
    /\ M.name = E.name
    /\ M.amount = (IF "amount" \in DOMAIN E THEN E.amount ELSE 0)
    /\ M.returnRate = (IF "returnRate" \in DOMAIN E THEN E.returnRate ELSE 0)
    /\ M.currency = (IF "currency" \in DOMAIN E /\ E.currency # "" THEN E.currency ELSE "CNY")
    /\ M.category = (IF "category" \in DOMAIN E /\ E.category \in AssetCategory
                     THEN E.category ELSE "Other")
    /\ M.lastUpdated = today

C2_InsertCase ==
    [][UploadSucceeds =>
        \A k \in 1..Len(Answer.items) :
            C2_Inserted(k) =>
                LET E == Answer.items[k]
                    at == WithName(assets', E.name)
                IN  /\ Cardinality(at) = 1
                    /\ \A j \in at :
                        /\ j > Len(assets)
                        /\ \A h \in 1..Len(assets') : h # j => assets'[h].id # assets'[j].id
                        /\ OnlyOnce(Answer.items, k) => C2_Fields(E, assets'[j])]_vars

\* Two assets were inserted, one of them with the defaults.
C2_Witness ==
    /\ Len(assets) >= 2
    /\ \E j \in 1..Len(assets) :
        /\ assets[j].name = "fund a"
        /\ assets[j].category = "Other"
        /\ assets[j].currency = "CNY"
        /\ assets[j].returnRate = -2

(***************************************************************************)
(* C3 -- History update.  When an upload succeeds on date D: if the        *)
(* history holds a point dated D, the result has the same length, the new  *)
(* point stands at that position and every other point is unchanged;       *)
(* otherwise the result is the history with one point dated D appended.    *)
(* Once the page is loaded, no other step changes the history.             *)
(***************************************************************************)
C3_HistoryUpdate ==
    [][/\ UploadSucceeds =>
            LET at == DatedAt(history, TodayDate) IN
            IF at # {}
            THEN /\ Len(history') = Len(history)
                 /\ \A j \in 1..Len(history) :
                        IF j \in at THEN history'[j].date = TodayDate
                                    ELSE history'[j] = history[j]
            ELSE /\ Len(history') = Len(history) + 1
                 /\ SubSeq(history', 1, Len(history)) = history
                 /\ history'[Len(history')].date = TodayDate
       /\ phase = "ready" /\ ~UploadSucceeds => history' = history]_vars

\* A point was replaced in place on the load day and one appended the next day.
C3_Witness ==
    /\ okDays = <<LoadDay, LoadDay + 1>>
    /\ Len(history) = MockLength + 1
    /\ history[MockLength].totalNetWorth < 100000
    /\ history[MockLength + 1].date = TodayDate

(***************************************************************************)
(* C4 -- History invariant.  The history holds at most one point per day;  *)
(* every day with a successful upload has exactly one point, and the point *)
(* of the day of the last upload carries that upload's values.             *)
(***************************************************************************)
C4_OnePointPerDay ==
    /\ \A i, j \in 1..Len(history) : history[i].date = history[j].date => i = j
    /\ \A k \in 1..Len(okDays) :
        Cardinality({j \in 1..Len(history) :
            history[j].date = <<(okDays[k] \div 10) % 10, okDays[k] % 10>>}) = 1
    /\ lastPoint # <<>> =>
        \E j \in 1..Len(history) : history[j] = lastPoint[1]

\* Two uploads succeeded on the same day, with different values.
C4_Witness ==
    /\ Len(okDays) = 2
    /\ okDays[1] = okDays[2]
    /\ Len(history) = 1
    /\ history[1].totalNetWorth > TotalNetWorth(assets)

(***************************************************************************)
(* C5 -- No overlapping requests.  At most one upload and at most one      *)
(* analysis is suspended at an await, each exactly while its busy flag is  *)
(* true; no upload starts while isUploading and no analysis starts while   *)
(* isAnalyzing; and, once the page is loaded, the holdings and the history *)
(* change only in the step in which the single suspended upload resumes.   *)
(***************************************************************************)
C5_NoOverlap ==
    /\ [](/\ Len(uploadReqs) <= 1
          /\ Len(analysisReqs) <= 1
          /\ isUploading <=> Len(uploadReqs) = 1
          /\ isAnalyzing <=> Len(analysisReqs) = 1)
    /\ [][/\ isUploading => Len(uploadReqs') <= Len(uploadReqs)
          /\ isAnalyzing => Len(analysisReqs') <= Len(analysisReqs)
          /\ phase = "ready" /\ (assets' # assets \/ history' # history) =>
                Len(uploadReqs) = 1 /\ uploadReqs' = <<>>]_vars

\* An upload and an analysis are both waiting for their service.
C5_Witness ==
    /\ isUploading /\ isAnalyzing
    /\ Len(uploadReqs) = 1 /\ uploadReqs[1].pc = "extracting"
    /\ Len(analysisReqs) = 1 /\ analysisReqs[1].pc = "analyzing"

(***************************************************************************)
(* C6 -- Extraction failure, as claimed.  When the upload that ends was    *)
(* answered by a rejection or by a text that cannot be parsed, the failure *)
(* notice is shown and the holdings are as before.                         *)
(***************************************************************************)
C6_FailureNotice ==
    [][UploadEnds /\ uploadReqs[1].resp.kind \in {"reject", "malformed"} =>
            notice' = "upload-failed" /\ assets' = assets]_vars

(***************************************************************************)
(* C6 -- Extraction failure, amended.  When the service call throws, the   *)
(* failure notice is shown and holdings and history are as before.  When   *)
(* the answer cannot be parsed, the holdings are as before too, but the    *)
(* upload ends as a success: the success notice is shown and the point of  *)
(* the day is written.                                                     *)
(***************************************************************************)
C6_FailureAmended ==
    [][UploadEnds =>
        /\ uploadReqs[1].resp.kind = "reject" =>
                notice' = "upload-failed" /\ assets' = assets /\ history' = history
        /\ uploadReqs[1].resp.kind = "malformed" =>
                /\ notice' = "upload-ok"
                /\ assets' = assets
                /\ UploadSucceeds
                /\ DatedAt(history', TodayDate) # {}]_vars

\* An unparsable answer ended an upload over non-empty holdings.
C6_Witness ==
    /\ lastKind = "malformed"
    /\ notice = "upload-ok"
    /\ assets # <<>>
    /\ uploadReqs = <<>>

(***************************************************************************)
(* C7 -- History value written by an upload.  The point a successful       *)
(* upload writes for the day has totalNetWorth equal to the sum of the     *)
(* asset amounts before the upload plus the sum of the amounts of the      *)
(* extracted records; after an empty extraction the holdings are unchanged *)
(* and the point carries the unchanged total.                              *)
(***************************************************************************)
C7_AnswerAmount(E) == IF "amount" \in DOMAIN E THEN E.amount ELSE 0

C7_AnswerSum == SumSeq([k \in 1..Len(Answer.items) |-> C7_AnswerAmount(Answer.items[k])])

C7_AssetSum == SumSeq([k \in 1..Len(assets) |-> assets[k].amount])

C7_PointValue ==
    [][UploadSucceeds =>
        /\ \E j \in DatedAt(history', TodayDate) :
                history'[j].totalNetWorth = C7_AssetSum + C7_AnswerSum
        /\ Answer.items = <<>> =>
                /\ assets' = assets
                /\ \E j \in DatedAt(history', TodayDate) :
                        history'[j].totalNetWorth = C7_AssetSum]_vars

\* From an empty history: a first upload inserted "Fund A" worth 10 and wrote
\* 10; the next day's upload updated it to 20 and wrote 10 + 20.
C7_Witness ==
    /\ okDays = <<LoadDay, LoadDay + 1>>
    /\ Len(assets) = 1 /\ assets[1].name = "Fund A" /\ assets[1].amount = 20
    /\ Len(history) = 2
    /\ history[1].totalNetWorth = 10
    /\ history[2].totalNetWorth = 30

(***************************************************************************)
(* C8 -- Analysis failure.  An analysis that ends either was answered with *)
(* a result, and then the stored analysis is that result, all three fields *)
(* together; or it threw, and then the failure notice is shown and the     *)
(* stored analysis is as before.  Once the page is loaded, no other step   *)
(* changes the analysis.                                                   *)
(***************************************************************************)
C8_AnalysisFailure ==
    [][/\ AnalysisEnds =>
            IF analysisReqs[1].resp.kind = "json"
            THEN analysis' = <<analysisReqs[1].resp.result>>
            ELSE analysis' = analysis /\ notice' = "analysis-failed"
       /\ phase = "ready" /\ ~AnalysisEnds => analysis' = analysis]_vars

\* A request that was rejected has ended, and an earlier result is still stored.
C8_Witness ==
    /\ analysis # <<>>
    /\ notice = "analysis-failed"
    /\ ~isAnalyzing
    /\ analysisReqs = <<>>

(***************************************************************************)
(* C9 -- Analysis on empty holdings.  While the holdings are empty no      *)
(* analysis request exists and isAnalyzing is false, and no step a handler *)
(* takes from such a state issues one or changes the analysis; the step    *)
(* that shows the notice changes nothing else.                             *)
(***************************************************************************)
C9_EmptyHoldings ==
    /\ [](Len(assets) = 0 => ~isAnalyzing /\ analysisReqs = <<>>)
    /\ [][/\ Len(assets) = 0 =>
                /\ ~isAnalyzing' /\ analysisReqs' = <<>>
                /\ phase = "ready" => analysis' = analysis
          /\ notice' = "need-assets" /\ notice # "need-assets" =>
                /\ Len(assets) = 0
                /\ UNCHANGED <<assets, history, analysis, isAnalyzing, isUploading,
                               analysisReqs, uploadReqs>>]_vars

\* The analysis was asked for over empty holdings.
C9_Witness ==
    /\ notice = "need-assets"
    /\ assets = <<>>
    /\ ~isAnalyzing

(***************************************************************************)
(* C10 -- Return to idle.  Every upload and every analysis that was        *)
(* started eventually ends, and then its busy flag is false: isUploading   *)
(* and isAnalyzing always return to false, after a failure as after a      *)
(* success.                                                                *)
(***************************************************************************)
C10_ReturnToIdle ==
    /\ isUploading ~> (~isUploading /\ uploadReqs = <<>>)
    /\ isAnalyzing ~> (~isAnalyzing /\ analysisReqs = <<>>)
    /\ [](uploadReqs = <<>> => ~isUploading)
    /\ [](analysisReqs = <<>> => ~isAnalyzing)

\* Both handlers are idle again after an upload and an analysis have failed.
C10_Witness ==
    /\ lastKind = "reject"
    /\ notice = "analysis-failed"
    /\ ~isUploading /\ ~isAnalyzing
    /\ uploadReqs = <<>> /\ analysisReqs = <<>>

(***************************************************************************)
(* C11 -- Persistence follows memory.  The render that ends the mount has  *)
(* for each key the value of the item localStorage held when the page was  *)
(* loaded, and the initial value of the state where there was no item; an  *)
(* item that was there is there again, unchanged, and nothing before that  *)
(* render changes the state.  From then on, whenever the persist effect    *)
(* has run, the items stored under the assets and history keys are the     *)
(* holdings and the history, and the item under the analysis key is the    *)
(* analysis whenever that is not null; while the analysis is null, the     *)
(* item is the one found at load.                                          *)
(***************************************************************************)
C11_Loaded ==
    /\ startup.assets # <<>> =>
            assets' = startup.assets[1].json /\ storage'.assets = startup.assets
    /\ startup.assets = <<>> => assets' = <<>>
    /\ startup.history # <<>> =>
            history' = startup.history[1].json /\ storage'.history = startup.history
    /\ startup.history = <<>> => Len(history') = 7
    /\ startup.analysis # <<>> =>
            analysis' = <<startup.analysis[1].json>> /\ storage'.analysis = startup.analysis
    /\ startup.analysis = <<>> => analysis' = <<>>

C11_Stored ==
    /\ storage.assets = <<[json |-> assets]>>
    /\ storage.history = <<[json |-> history]>>
    /\ analysis # <<>> => storage.analysis = <<[json |-> analysis[1]]>>
    /\ analysis = <<>> => storage.analysis = startup.analysis

C12_Amounts == SumSeq([k \in 1..Len(assets) |-> assets[k].amount])

C12_Weighted == SumSeq([k \in 1..Len(assets) |-> assets[k].amount * assets[k].returnRate])

C12_Captured == uploadReqs'[Len(uploadReqs')]

C12_WeightedReturnRate ==
    [][Len(uploadReqs') > Len(uploadReqs) =>
        /\ C12_Captured.totalNetWorth = C12_Amounts
        /\ C12_Captured.totalReturnRate.den > 0
        /\ C12_Amounts = 0 =>
                C12_Captured.totalReturnRate = [num |-> 0, den |-> 1]
        /\ C12_Amounts > 0 =>
                C12_Captured.totalReturnRate.num * C12_Amounts
                    = C12_Weighted * C12_Captured.totalReturnRate.den]_vars

\* An upload was started over holdings that are worth nothing but carry
\* non-zero return rates.
C12_Witness ==
    /\ Len(uploadReqs) = 1
    /\ Len(assets) = 2
    /\ \A k \in 1..Len(assets) : assets[k].amount = 0 /\ assets[k].returnRate # 0
    /\ uploadReqs[1].totalReturnRate = [num |-> 0, den |-> 1]

\* An upload was started over holdings whose rate is not a whole number:
\* 10 at 5% and 10 at -2% give 3/2.
C12_WitnessWeighted ==
    /\ Len(uploadReqs) = 1
    /\ Len(assets) = 2
    /\ uploadReqs[1].totalNetWorth = 20
    /\ uploadReqs[1].totalReturnRate = [num |-> 3, den |-> 2]

(***************************************************************************)
(* C13 -- Empty-name records.  When an upload succeeds, the records of the *)
(* answer whose name is empty or missing change nothing: the names of the  *)
(* holdings afterwards are the names before and the names of the named     *)
(* records, the list grows by the number of new names among the named      *)
(* records, and an asset whose name no named record carries is unchanged.  *)
(***************************************************************************)
C13_NamedNames == {Answer.items[k].name : k \in {h \in 1..Len(Answer.items) : HasName(Answer.items[h])}}

C13_EmptyNameSkipped ==
    [][UploadSucceeds =>
        /\ NamesOf(assets') = NamesOf(assets) \cup C13_NamedNames
        /\ Len(assets') = Len(assets) + Cardinality(C13_NamedNames \ NamesOf(assets))
        /\ \A j \in 1..Len(assets) :
                assets[j].name \notin C13_NamedNames => assets'[j] = assets[j]]_vars

\* What the code does with such a record: it is processed under the default
\* name, so it inserts an asset of that name or updates the one that is there.
C13_EmptyNameDefaulted ==
    [][UploadSucceeds /\ (\E k \in 1..Len(Answer.items) : ~HasName(Answer.items[k])) =>
        \E j \in 1..Len(assets') :
            /\ assets'[j].name = "unknown-asset"
            /\ assets'[j].lastUpdated = today]_vars

(***************************************************************************)
(* C14 -- Order and monotonic growth of the holdings.  In every step, of   *)
(* an upload, of an analysis or of the load, the list does not get shorter *)
(* and every asset it held keeps its index, its id and its name: nothing   *)
(* is removed or moved, an updated asset stays where it was, and what is   *)
(* new stands after everything that was there.  The assets an upload       *)
(* inserts stand in the order in which the records that inserted them come *)
(* in the answer (a record without a name counts under the default name it *)
(* is processed with).                                                     *)
(***************************************************************************)
C14_RecordName(E) == IF "name" \in DOMAIN E /\ E.name # "" THEN E.name ELSE "unknown-asset"

C14_FirstRecord(n) ==
    CHOOSE k \in 1..Len(Answer.items) :
        /\ C14_RecordName(Answer.items[k]) = n
        /\ \A h \in 1..(k - 1) : C14_RecordName(Answer.items[h]) # n

C14_OrderAndGrowth ==
    [][/\ Len(assets') >= Len(assets)
       /\ \A j \in 1..Len(assets) :
            assets'[j].id = assets[j].id /\ assets'[j].name = assets[j].name
       /\ UploadSucceeds =>
            \A p, q \in (Len(assets) + 1)..Len(assets') :
                /\ \E k \in 1..Len(Answer.items) :
                        C14_RecordName(Answer.items[k]) = assets'[p].name
                /\ p < q => C14_FirstRecord(assets'[p].name) < C14_FirstRecord(assets'[q].name)]_vars

\* Over a loaded asset, one upload inserted "fund a" and then "Fund A", in
\* the order of its answer, and a second upload updated "Fund A" in place.
C14_Witness ==
    /\ Len(okDays) = 2
    /\ Len(assets) = 3
    /\ assets[1].name = "Cash B" /\ assets[1].id = 0
    /\ assets[2].name = "fund a" /\ assets[2].id = 1
    /\ assets[3].name = "Fund A" /\ assets[3].id = 2 /\ assets[3].amount = 20

(***************************************************************************)
(* C15 -- Name and id uniqueness.  The assets of the holdings list have    *)
(* pairwise distinct names and pairwise distinct ids, in every state.  And *)
(* when an upload succeeds whose answer carries a name, new to the list,   *)
(* more than once, the list grows by one asset of that name only, and that *)
(* asset has the amount of the last record of that name.                   *)
(***************************************************************************)
C15_Records(n) == {k \in 1..Len(Answer.items) : HasName(Answer.items[k]) /\ Answer.items[k].name = n}

C15_Last(n) == CHOOSE k \in C15_Records(n) : \A h \in C15_Records(n) : h <= k

C15_Repeated ==
    {n \in {Answer.items[k].name : k \in {h \in 1..Len(Answer.items) : HasName(Answer.items[h])}} :
        Cardinality(C15_Records(n)) >= 2 /\ n \notin {assets[j].name : j \in 1..Len(assets)}}

C15_Uniqueness ==
    /\ [](\A i, j \in 1..Len(assets) :
            i # j => assets[i].name # assets[j].name /\ assets[i].id # assets[j].id)
    /\ [][UploadSucceeds =>
            \A n \in C15_Repeated :
                LET at == {j \in 1..Len(assets') : assets'[j].name = n}
                    E == Answer.items[C15_Last(n)]
                IN  /\ Cardinality(at) = 1
                    /\ \A j \in at :
                        /\ j > Len(assets)
                        /\ assets'[j].amount = (IF "amount" \in DOMAIN E THEN E.amount ELSE 0)]_vars

\* From empty holdings, one upload whose answer carried "Fund A" twice (10,
\* then 20): one asset, drawn one id, with the amount of the second record;
\* the point of the day shows that both records were extracted.
C15_Witness ==
    /\ startup.assets = <<>>
    /\ Len(okDays) = 1
    /\ uuids = 1
    /\ Len(assets) = 1 /\ assets[1].name = "Fund A" /\ assets[1].amount = 20
    /\ lastPoint # <<>> /\ lastPoint[1].totalNetWorth = 30

====
